---------------------------- MODULE Spec2Model ----------------------------
(***************************************************************************)
(* Session management of the Streamable HTTP entrypoint                    *)
(* (src/src/stdio.ts, second file of the listing, lines 37-159).           *)
(*                                                                         *)
(* The Express handler app.all('/mcp') is an async function.  JavaScript   *)
(* runs it synchronously up to each `await`; at an await the handler is    *)
(* suspended and other handlers (and transport callbacks) may run.  Each   *)
(* action below is one such synchronous section of one handler.            *)
(*                                                                         *)
(* The transport object (StreamableHTTPServerTransport) belongs to the     *)
(* MCP SDK.  What the model keeps of it is what the handler reads or       *)
(* relies on: its sessionId field, whether close() has run, and that       *)
(* close() invokes the onclose callback installed at line 98.              *)
(*                                                                         *)
(* The second part models the tools of src/src/tools.ts on the server      *)
(* instances that createServer() (src/src/server.ts) builds: the           *)
(* module-level flag bonusToolLoaded, the tools registered on each         *)
(* instance, and the tool handlers, which are async functions and are      *)
(* split at their awaits in the same way.                                  *)
(***************************************************************************)
EXTENDS Integers, FiniteSets, Bags, Sequences

\* ------------------------------------------------------------------ bounds
\* Number of requests that may be in flight at once.
MaxHandlers == 2
\* Number of transport/server pairs the process creates in one run.
MaxTransports == 2
\* Number of tool calls that may be in flight at once.
MaxCalls == 2
\* bonus_calculator is called with every integer from -MaxOperand to
\* MaxOperand.
MaxOperand == 6
\* Largest `steps` argument a long_task call passes explicitly.
MaxSteps == 2
\* Longest value of the PORT environment variable.
MaxPortLen == 2

TransportIds == 1..MaxTransports

\* ------------------------------------------------------------- constants
\* req.headers['mcp-session-id'] === undefined, transport.sessionId === undefined
NoToken == 0
\* A header value that sessionIdGenerator never returns.
UnknownToken == MaxTransports + 1
\* Values the generator can return within the bound.
Tokens == 1..MaxTransports
HeaderValues == {NoToken, UnknownToken} \cup Tokens

\* req.method: the three verbs the handler serves and one it does not
Methods == {"GET", "POST", "DELETE", "PUT"}

\* req.body: a session-initializing handshake or any other JSON-RPC payload
Bodies == {"initialize", "other"}
NoTransport == 0

VARIABLES
    transports,   \* the Map<string, transport>: token -> transport id
    created,      \* number of transports constructed so far (ids 1..created)
    servers,      \* number of McpServer instances constructed so far
    sessionIdOf,  \* transport.sessionId of each transport
    serverOf,     \* the server connected to each transport (0: none)
    closed,       \* transports on which close() has run / onclose has fired
    handlers,     \* the bag of invocations of the app.all('/mcp') handler
                  \* that are suspended at an await, or have written their
                  \* own response (lines 76, 125, 127, 132) and returned
    bonusToolLoaded,  \* tools.ts line 32: let bonusToolLoaded = false
    registered,   \* the names of the tools registered on each server instance
    calls,        \* the bag of tool handler invocations that are suspended
                  \* at an await or have produced their result
    portEnv,      \* process.env.PORT
    PORT,         \* stdio.ts line 55: const PORT
    calcIn,       \* the arguments of a bonus_calculator call
    calcOut       \* what the bonus_calculator handler returned for them

toolVars == <<bonusToolLoaded, registered, calls>>

\* the inputs and results of the two computations checked on their own
pureVars == <<portEnv, PORT, calcIn, calcOut>>

vars == <<transports, created, servers, sessionIdOf, serverOf, closed,
          handlers, bonusToolLoaded, registered, calls,
          portEnv, PORT, calcIn, calcOut>>

\* One invocation of the handler:
\*   pc      where it is suspended ("stream": line 81, "connect": line 106,
\*           "handleKnown"/"handleNew": line 109 on either branch,
\*           "close": line 123) or "done" once it has answered itself
\*   method  req.method
\*   sid     const sessionId, the mcp-session-id request header
\*   body    req.body
\*   local   the local `transport` (NoTransport: not assigned)
\*   status  the HTTP status written to res (0: none yet)
Handler(p, m, k, b, t, c) ==
    [pc |-> p, method |-> m, sid |-> k, body |-> b, local |-> t, status |-> c]

InFlight == BagToSet(handlers)

\* the bag with one more invocation
Started(r) == handlers (+) SetToBag({r})

\* the bag after invocation r ran to its next await and became r2
Stepped(r, r2) == (handlers (-) SetToBag({r})) (+) SetToBag({r2})

\* the bag after invocation r returned
Returned(r) == handlers (-) SetToBag({r})

\* ------------------------------------------------------------ the table
\* transports.has(k) with the `sessionId &&` truthiness test of lines 75, 89, 121
HasSession(k) == k # NoToken /\ k \in DOMAIN transports

\* transports.delete(k)
MapDelete(tbl, k) == [x \in (DOMAIN tbl) \ {k} |-> tbl[x]]

\* transports.set(k, t)
MapSet(tbl, k, t) == [x \in (DOMAIN tbl) \cup {k} |-> IF x = k THEN t ELSE tbl[x]]

\* /health: sessions: transports.size
HealthSessions == Cardinality(DOMAIN transports)

\* Tokens that a response has carried back to some client.
Issued == {sessionIdOf[t] : t \in 1..created} \ {NoToken}

\* The transport that generated token k.
OwnerOf(k) == CHOOSE t \in 1..created : sessionIdOf[t] = k

\* ------------------------------------------------------ factory, generator
\* The server instances: one per createServer() call.
ServerIds == 1..MaxTransports

\* tools.ts lines 38-44: the tools registerTools registers on an instance
BaseTools == {"hello", "get_weather", "ask_llm", "long_task",
              "load_bonus_tool", "confirm_action", "get_feedback"}

\* Mutation: registerTools registers bonus_calculator on a new instance
\* when the flag is set.
RegisterToolsReadingFlag ==
    IF bonusToolLoaded THEN BaseTools \cup {"bonus_calculator"} ELSE BaseTools

\* Mutation: registerTools registers the bonus tool as well.
RegisterToolsWithBonus == BaseTools \cup {"bonus_calculator"}

\* registerTools(server), tools.ts lines 37-45, called by createServer()
\* (server.ts line 87): the tool names on the instance it returns.
RegisterTools == BaseTools

\* Mutation: createServer() hands out one module-level instance.
CreateServerShared == IF servers = 0 THEN servers + 1 ELSE servers

\* createServer(): a new McpServer object on every call
CreateServer == servers + 1

\* sessionIdGenerator: () => crypto.randomUUID(), called by transport t: a
\* value no other call returns.  Each transport draws at most one, so the
\* value drawn by transport t is written t.
GenerateSessionId(t) == t

\* Mutation: the onclose callback leaves the table alone.
OnCloseKeepsEntry(tbl, t) == tbl

\* transport.onclose: const id = transport.sessionId; if (id) transports.delete(id)
OnClose(tbl, t) ==
    IF sessionIdOf[t] # NoToken THEN MapDelete(tbl, sessionIdOf[t]) ELSE tbl

\* Mutation: line 112 without the `transport.sessionId &&` test.
ShouldStoreNoIdCheck(t) == sessionIdOf[t] \notin DOMAIN transports

\* Mutation: line 112 with the negation of transports.has lost.
ShouldStoreInverted(t) ==
    sessionIdOf[t] # NoToken /\ sessionIdOf[t] \in DOMAIN transports

\* line 112: transport.sessionId && !transports.has(transport.sessionId)
ShouldStore(t) ==
    sessionIdOf[t] # NoToken /\ sessionIdOf[t] \notin DOMAIN transports

\* Mutation: line 113 stores under the request header, transports.set(sessionId, ...).
StoreKeyHeader(r) == r.sid

\* line 113: the key of transports.set(transport.sessionId, transport)
StoreKey(r) == sessionIdOf[r.local]

\* Mutation: line 124 missing, the removal left to onclose alone.
AfterDeleteNoop(k) == transports

\* line 124: transports.delete(sessionId)
AfterDelete(k) == MapDelete(transports, k)

\* Mutation: the DELETE branch taken by every verb that reaches line 119.
IsDeleteOrOther(m) == m \notin {"GET", "POST"}

\* line 119: req.method === 'DELETE'
IsDelete(m) == m = "DELETE"

\* Mutation: line 80 takes a transport of the table without regard to the key.
GetTransportAny(k) == transports[CHOOSE x \in DOMAIN transports : TRUE]

\* line 80: const transport = transports.get(sessionId)!
GetTransport(k) == transports[k]

\* ---------------------------------------------------------------- numbers
\* The arguments a and b of bonus_calculator are JavaScript numbers
\* (z.number(), tools.ts lines 226-227): IEEE 754 binary64 values, and +, -,
\* * and / on them return the exact result rounded to the nearest number,
\* ties to the even significand.  A natural number is written here as the
\* sequence of its digits in base Limb, least significant first and without
\* leading zeros (<<>> is 0), so that magnitudes around 2^53 and their
\* products can be written.

\* Width of the significand of a number.
SignificandBits == 53
\* A magnitude of 2^MaxExponent or more is Infinity.
MaxExponent == 1024
\* Width and base of one digit of a natural number.
LimbBits == 15
Limb == 2 ^ LimbBits

RECURSIVE NTrim(_)
NTrim(x) ==
    IF x = <<>> THEN <<>>
    ELSE IF x[Len(x)] = 0 THEN NTrim(SubSeq(x, 1, Len(x) - 1)) ELSE x

RECURSIVE NatLimbs(_)
NatLimbs(n) == IF n = 0 THEN <<>> ELSE <<n % Limb>> \o NatLimbs(n \div Limb)

RECURSIVE NAddC(_, _, _)
NAddC(x, y, c) ==
    IF x = <<>> /\ y = <<>>
    THEN IF c = 0 THEN <<>> ELSE <<c>>
    ELSE LET xd == IF x = <<>> THEN 0 ELSE Head(x)
             yd == IF y = <<>> THEN 0 ELSE Head(y)
             t  == xd + yd + c
         IN  <<t % Limb>> \o NAddC(IF x = <<>> THEN <<>> ELSE Tail(x),
                                   IF y = <<>> THEN <<>> ELSE Tail(y),
                                   t \div Limb)

NAdd(x, y) == NAddC(x, y, 0)

\* x - y for x >= y
RECURSIVE NSubB(_, _, _)
NSubB(x, y, br) ==
    IF x = <<>> THEN <<>>
    ELSE LET yd == IF y = <<>> THEN 0 ELSE Head(y)
             t  == Head(x) - yd - br
         IN  <<t % Limb>> \o NSubB(Tail(x),
                                   IF y = <<>> THEN <<>> ELSE Tail(y),
                                   IF t < 0 THEN 1 ELSE 0)

NSub(x, y) == NTrim(NSubB(x, y, 0))

RECURSIVE NLessAt(_, _, _)
NLessAt(x, y, i) ==
    IF i = 0 THEN FALSE
    ELSE IF x[i] # y[i] THEN x[i] < y[i] ELSE NLessAt(x, y, i - 1)

NLess(x, y) ==
    IF Len(x) # Len(y) THEN Len(x) < Len(y) ELSE NLessAt(x, y, Len(x))

NLeq(x, y) == x = y \/ NLess(x, y)

\* x * m + c for one digit m
RECURSIVE NMulLimbC(_, _, _)
NMulLimbC(x, m, c) ==
    IF x = <<>> THEN (IF c = 0 THEN <<>> ELSE <<c>>)
    ELSE LET t == Head(x) * m + c
         IN  <<t % Limb>> \o NMulLimbC(Tail(x), m, t \div Limb)

NMulLimb(x, m) == NTrim(NMulLimbC(x, m, 0))

\* x * Limb^k
ShiftLimbs(x, k) == IF x = <<>> THEN <<>> ELSE [i \in 1..k |-> 0] \o x

RECURSIVE NMul(_, _)
NMul(x, y) ==
    IF x = <<>> \/ y = <<>> THEN <<>>
    ELSE NAdd(NMulLimb(y, Head(x)), ShiftLimbs(NMul(Tail(x), y), 1))

\* x * 2^k
NShl(x, k) == ShiftLimbs(NMulLimb(x, 2 ^ (k % LimbBits)), k \div LimbBits)

\* x \div 2^k
NShr(x, k) ==
    IF k \div LimbBits >= Len(x) THEN <<>>
    ELSE LET y == SubSeq(x, k \div LimbBits + 1, Len(x))
             r == k % LimbBits
         IN  NTrim([i \in 1..Len(y) |->
                     (y[i] \div 2 ^ r)
                       + (IF i < Len(y)
                          THEN (y[i + 1] % 2 ^ r) * 2 ^ (LimbBits - r)
                          ELSE 0)])

Pow2(k) == NShl(<<1>>, k)

\* The binary digit of weight 2^j of x.
NBit(x, j) ==
    IF j \div LimbBits >= Len(x) THEN 0
    ELSE (x[j \div LimbBits + 1] \div 2 ^ (j % LimbBits)) % 2

\* The number of binary digits of x.
NBitLen(x) ==
    IF x = <<>> THEN 0
    ELSE LimbBits * (Len(x) - 1)
           + (CHOOSE j \in 1..LimbBits :
                 2 ^ (j - 1) <= x[Len(x)] /\ x[Len(x)] < 2 ^ j)

\* The largest digit t + u with u < 2 * step for which (t + u) * d <= cur.
RECURSIVE QuotDigit(_, _, _, _)
QuotDigit(cur, d, t, step) ==
    IF step = 0 THEN t
    ELSE IF NLeq(NMulLimb(d, t + step), cur)
    THEN QuotDigit(cur, d, t + step, step \div 2)
    ELSE QuotDigit(cur, d, t, step \div 2)

\* Long division of x by d # 0, from the digit i of x downwards:
\* quotient q and remainder r.
RECURSIVE DivStep(_, _, _, _, _)
DivStep(x, i, d, rem, q) ==
    IF i = 0 THEN [q |-> NTrim(q), r |-> rem]
    ELSE LET cur == NTrim(<<x[i]>> \o rem)
             qd  == QuotDigit(cur, d, 0, Limb \div 2)
         IN  IF qd = 0
             THEN DivStep(x, i - 1, d, cur, <<0>> \o q)
             ELSE DivStep(x, i - 1, d, NSub(cur, NMulLimb(d, qd)),
                          <<qd>> \o q)

NDivMod(x, d) == DivStep(x, Len(x), d, <<>>, <<>>)

\* An integer: sign and magnitude.
Integer(neg, mag) == [neg |-> neg /\ mag # <<>>, mag |-> mag]

FromInt(n) == Integer(n < 0, NatLimbs(IF n < 0 THEN -n ELSE n))

\* The exact sum, difference and product of two integers.
ExactAdd(x, y) ==
    IF x.neg = y.neg THEN Integer(x.neg, NAdd(x.mag, y.mag))
    ELSE IF NLess(x.mag, y.mag) THEN Integer(y.neg, NSub(y.mag, x.mag))
    ELSE Integer(x.neg, NSub(x.mag, y.mag))

ExactSubtract(x, y) == ExactAdd(x, Integer(~y.neg, y.mag))

ExactMultiply(x, y) == Integer(x.neg # y.neg, NMul(x.mag, y.mag))

\* The number NaN, as the calculator returns it.
NotANumber == [kind |-> "NaN", neg |-> FALSE, mant |-> <<>>, exp |-> 0]

\* The number of zero binary digits at the low end of m # 0.
LowZeros(m) ==
    CHOOSE j \in 0..(NBitLen(m) - 1) :
        NBit(m, j) = 1 /\ \A i \in 0..(j - 1) : NBit(m, i) = 0

\* The number (-1)^neg * m * 2^e, written with an odd significand.
Finite(neg, m, e) ==
    IF m = <<>>
    THEN [kind |-> "number", neg |-> FALSE, mant |-> <<>>, exp |-> 0]
    ELSE IF NBitLen(m) + e > MaxExponent
    THEN [kind |-> "Infinity", neg |-> neg, mant |-> <<>>, exp |-> 0]
    ELSE [kind |-> "number", neg |-> neg,
          mant |-> NShr(m, LowZeros(m)),
          exp  |-> e + LowZeros(m)]

\* Round to nearest, ties to even: guard is the first digit dropped,
\* sticky whether any digit below it is set, lsb the last digit kept.
RoundsUp(guard, sticky, lsb) == guard = 1 /\ (sticky \/ lsb = 1)

\* The number nearest to (-1)^neg * num / den, for den # 0: the quotient
\* is taken to at least SignificandBits + 2 binary digits and rounded to
\* SignificandBits.
Round(neg, num, den) ==
    IF num = <<>> THEN Finite(FALSE, <<>>, 0)
    ELSE
    LET want == SignificandBits + 2 + NBitLen(den)
        k    == IF NBitLen(num) >= want THEN 0 ELSE want - NBitLen(num)
        dm   == NDivMod(NShl(num, k), den)
        q    == dm.q
        d    == NBitLen(q) - SignificandBits
        kept == NShr(q, d)
        sticky == dm.r # <<>> \/ \E j \in 0..(d - 2) : NBit(q, j) = 1
        m    == IF RoundsUp(NBit(q, d - 1), sticky, NBit(kept, 0))
                THEN NAdd(kept, <<1>>) ELSE kept
    IN  Finite(neg, m, d - k)

\* ------------------------------------------------------- bonus_calculator
\* tools.ts lines 240-245: the table ops
Add(a, b) == LET z == ExactAdd(a, b) IN Round(z.neg, z.mag, <<1>>)

Subtract(a, b) == LET z == ExactSubtract(a, b) IN Round(z.neg, z.mag, <<1>>)

\* Mutation: multiply adds.
MultiplyAdds(a, b) == Add(a, b)

Multiply(a, b) == LET z == ExactMultiply(a, b) IN Round(z.neg, z.mag, <<1>>)

\* line 244: b !== 0 ? a / b : NaN
Divide(a, b) ==
    IF b.mag # <<>> THEN Round(a.neg # b.neg, a.mag, b.mag) ELSE NotANumber

Ops(a, b) ==
    [add |-> Add(a, b), subtract |-> Subtract(a, b),
     multiply |-> Multiply(a, b), divide |-> Divide(a, b)]

\* lines 239-249: the handler returns a text that ends in the number
\* ops[operation], and no isError.  Number-to-text conversion gives
\* different numbers different texts, so the number stands for the text.
BonusCalculator(in) ==
    [value |-> Ops(in.a, in.b)[in.operation], isError |-> FALSE]

\* No bonus_calculator call made, no result returned.
NoCall == [a |-> FromInt(0), b |-> FromInt(0), operation |-> "none"]

NoResult ==
    [value |-> [kind |-> "none", neg |-> FALSE, mant |-> <<>>, exp |-> 0],
     isError |-> FALSE]

\* ---------------------------------------------- transport.handleRequest
\* The transport's answer to a POST: a handshake initializes a fresh
\* transport and is refused by an initialized one; any other payload is
\* refused by a transport that was never initialized.
PostStatus(t, b) ==
    IF b = "initialize"
    THEN IF sessionIdOf[t] = NoToken THEN 200 ELSE 400
    ELSE IF sessionIdOf[t] = NoToken THEN 400 ELSE 200

\* The transport's sessionId after it handled a POST with payload b.
PostSessionId(t, b) ==
    IF b = "initialize" /\ sessionIdOf[t] = NoToken
    THEN GenerateSessionId(t)
    ELSE sessionIdOf[t]

\* ------------------------------------------------------------------- PORT
\* Characters a value of the environment variable is made of: digits, white
\* space, the two signs and a character that is none of these.
PortChars == {"0", "3", "8", " ", "-", "+", "x"}

DigitChars == {"0", "3", "8"}

DigitValue(ch) == IF ch = "0" THEN 0 ELSE IF ch = "3" THEN 3 ELSE 8

\* process.env.PORT: undefined, or a string
EnvUnset == [set |-> FALSE, text |-> <<>>]

EnvSet(q) == [set |-> TRUE, text |-> q]

PortTexts == UNION {[1..n -> PortChars] : n \in 0..MaxPortLen}

PortInputs == {EnvUnset} \cup {EnvSet(q) : q \in PortTexts}

\* A JavaScript number that is an integer, NaN, and a constant not yet
\* evaluated.
Num(v) == [kind |-> "number", value |-> v]

NaN == [kind |-> "NaN", value |-> 0]

NotEvaluated == [kind |-> "none", value |-> 0]

\* line 55: the literal '3000'
DefaultPortText == <<"3", "0", "0", "0">>

\* line 55: process.env.PORT || '3000' (undefined and '' are falsy)
OrDefault(e) == IF e.set /\ e.text # <<>> THEN e.text ELSE DefaultPortText

\* parseInt step 2-3: leading white space is skipped
RECURSIVE TrimStart(_)
TrimStart(q) ==
    IF q # <<>> /\ Head(q) = " " THEN TrimStart(Tail(q)) ELSE q

\* parseInt: the length of the longest prefix of q made of radix-10 digits
RECURSIVE DigitPrefixLen(_)
DigitPrefixLen(q) ==
    IF q # <<>> /\ Head(q) \in DigitChars
    THEN 1 + DigitPrefixLen(Tail(q))
    ELSE 0

\* parseInt: the mathematical value of a sequence of digits
RECURSIVE DigitsValue(_)
DigitsValue(q) ==
    IF q = <<>> THEN 0
    ELSE 10 * DigitsValue(SubSeq(q, 1, Len(q) - 1)) + DigitValue(q[Len(q)])

\* parseInt(q, 10): white space skipped, an optional sign, then the longest
\* prefix of digits; NaN when that prefix is empty; what follows is ignored.
ParseInt(q) ==
    LET t == TrimStart(q)
        signed == t # <<>> /\ Head(t) \in {"-", "+"}
        u == IF signed THEN Tail(t) ELSE t
        n == DigitPrefixLen(u)
        v == DigitsValue(SubSeq(u, 1, n))
    IN  IF n = 0 THEN NaN
        ELSE IF signed /\ Head(t) = "-" THEN Num(0 - v) ELSE Num(v)

\* line 55: const PORT = parseInt(process.env.PORT || '3000', 10)
ParsePort(e) == ParseInt(OrDefault(e))

Init ==
    /\ transports = <<>>
    /\ created = 0
    /\ servers = 0
    /\ sessionIdOf = [t \in TransportIds |-> NoToken]
    /\ serverOf = [t \in TransportIds |-> 0]
    /\ closed = {}
    /\ handlers = EmptyBag
    /\ bonusToolLoaded = FALSE
    /\ registered = [s \in ServerIds |-> {}]
    /\ calls = EmptyBag
    /\ portEnv = EnvUnset
    /\ PORT = ParsePort(portEnv)
    /\ calcIn = NoCall
    /\ calcOut = NoResult

\* Header values a client can send: none, a value never issued, or a token
\* some response has carried.
ClientHeaders == {NoToken, UnknownToken} \cup Issued

\* Mutation: the process handles one request at a time, to its response.
CanAcceptOneAtATime == handlers = EmptyBag

\* Mutation: an await before handleRequest on the known-token path too.
FirstAwaitConnect(known) == "connect"

\* Where a POST first suspends: with a known token at the handleRequest call
\* of line 109 (lines 89-90 have no await), otherwise at the
\* server.connect of line 106.
FirstAwait(known) == IF known THEN "handleKnown" ELSE "connect"

\* A request can be taken while fewer than MaxHandlers are being handled.
CanAccept == BagCardinality(handlers) < MaxHandlers

\* GET, lines 73-83, up to the await of line 81.
GetRequest(k) ==
    /\ CanAccept
    /\ k \in ClientHeaders
    /\ handlers' =
         IF ~HasSession(k)
         THEN Started(Handler("done", "GET", k, "other", NoTransport, 400))
         ELSE Started(Handler("stream", "GET", k, "other", GetTransport(k), 200))
    /\ UNCHANGED <<transports, created, servers, sessionIdOf, serverOf,
                   closed>>
    /\ UNCHANGED toolVars
    /\ UNCHANGED pureVars

\* GET, line 82: handleRequest resolved, return.
GetReturn(r) ==
    /\ r.pc = "stream"
    /\ handlers' = Returned(r)
    /\ UNCHANGED <<transports, created, servers, sessionIdOf, serverOf,
                   closed>>
    /\ UNCHANGED toolVars
    /\ UNCHANGED pureVars

\* POST with a known token, lines 85-90 and the call of line 109.
PostKnown(k, b) ==
    /\ CanAccept
    /\ k \in ClientHeaders
    /\ HasSession(k)
    /\ LET t == transports[k] IN
       /\ handlers' = Started(Handler(FirstAwait(TRUE), "POST", k, b, t,
                                      PostStatus(t, b)))
       /\ sessionIdOf' = [sessionIdOf EXCEPT ![t] = PostSessionId(t, b)]
    /\ UNCHANGED <<transports, created, servers, serverOf, closed>>
    /\ UNCHANGED toolVars
    /\ UNCHANGED pureVars

\* POST without a known token, lines 91-106: createServer(), new transport,
\* onclose installed, server.connect(transport) called and awaited.
PostNew(k, b) ==
    /\ CanAccept
    /\ k \in ClientHeaders
    /\ ~HasSession(k)
    /\ created < MaxTransports
    /\ created' = created + 1
    /\ servers' = servers + 1
    /\ serverOf' = [serverOf EXCEPT ![created + 1] = CreateServer]
    /\ handlers' = Started(Handler(FirstAwait(FALSE), "POST", k, b,
                                   created + 1, 0))
    /\ registered' = [registered EXCEPT ![CreateServer] = RegisterTools]
    /\ UNCHANGED <<transports, sessionIdOf, closed, bonusToolLoaded, calls>>
    /\ UNCHANGED pureVars

\* Line 109 on the new-session path: connect resolved, handleRequest called
\* and awaited.  A handshake makes the transport generate its sessionId and
\* write it to the response.
PostConnected(r) ==
    /\ r.pc = "connect"
    /\ LET t == r.local IN
       /\ handlers' = Stepped(r, [r EXCEPT !.pc = "handleNew",
                                           !.status = PostStatus(t, r.body)])
       /\ sessionIdOf' = [sessionIdOf EXCEPT ![t] = PostSessionId(t, r.body)]
    /\ UNCHANGED <<transports, created, servers, serverOf, closed>>
    /\ UNCHANGED toolVars
    /\ UNCHANGED pureVars

\* Lines 111-116: handleRequest resolved; store the transport if it has a
\* sessionId that is not a key of the table, and return.
PostHandled(r) ==
    /\ r.pc \in {"handleKnown", "handleNew"}
    /\ transports' = IF ShouldStore(r.local)
                     THEN MapSet(transports, StoreKey(r), r.local)
                     ELSE transports
    /\ handlers' = Returned(r)
    /\ UNCHANGED <<created, servers, sessionIdOf, serverOf, closed>>
    /\ UNCHANGED toolVars
    /\ UNCHANGED pureVars

\* DELETE, lines 119-123 and 126-129: unknown token answers 404; a known
\* token calls transport.close(), which fires onclose, and awaits it.
DeleteRequest(m, k) ==
    /\ CanAccept
    /\ k \in ClientHeaders
    /\ m \notin {"GET", "POST"}
    /\ IsDelete(m)
    /\ IF HasSession(k)
       THEN LET t == transports[k] IN
            /\ closed' = closed \cup {t}
            /\ transports' = OnClose(transports, t)
            /\ handlers' = Started(Handler("close", m, k, "other", t, 0))
       ELSE /\ handlers' = Started(Handler("done", m, k, "other",
                                           NoTransport, 404))
            /\ UNCHANGED <<transports, closed>>
    /\ UNCHANGED <<created, servers, sessionIdOf, serverOf>>
    /\ UNCHANGED toolVars
    /\ UNCHANGED pureVars

\* DELETE, lines 124-125: close() resolved; delete the entry, answer 200.
DeleteClosed(r) ==
    /\ r.pc = "close"
    /\ transports' = AfterDelete(r.sid)
    /\ handlers' = Stepped(r, [r EXCEPT !.pc = "done", !.status = 200])
    /\ UNCHANGED <<created, servers, sessionIdOf, serverOf, closed>>
    /\ UNCHANGED toolVars
    /\ UNCHANGED pureVars

\* Any other verb, lines 131-132: none of the tests of lines 73, 85 and 119
\* matched.
OtherRequest(m, k) ==
    /\ CanAccept
    /\ k \in ClientHeaders
    /\ m \notin {"GET", "POST"}
    /\ ~IsDelete(m)
    /\ handlers' = Started(Handler("done", m, k, "other", NoTransport, 405))
    /\ UNCHANGED <<transports, created, servers, sessionIdOf, serverOf,
                   closed>>
    /\ UNCHANGED toolVars
    /\ UNCHANGED pureVars

\* The connection of an initialized session drops: the transport closes on
\* its own and fires the onclose callback of lines 98-104.
TransportClose(t) ==
    /\ t \in 1..created
    /\ t \notin closed
    /\ sessionIdOf[t] # NoToken
    /\ closed' = closed \cup {t}
    /\ transports' = OnClose(transports, t)
    /\ UNCHANGED <<created, servers, sessionIdOf, serverOf, handlers>>
    /\ UNCHANGED toolVars
    /\ UNCHANGED pureVars

\* The response a handler wrote has been consumed.
Finish(r) ==
    /\ r.pc = "done"
    /\ handlers' = Returned(r)
    /\ UNCHANGED <<transports, created, servers, sessionIdOf, serverOf,
                   closed>>
    /\ UNCHANGED toolVars
    /\ UNCHANGED pureVars

Next ==
    \/ \E k \in HeaderValues : GetRequest(k)
    \/ \E r \in InFlight : GetReturn(r)
    \/ \E k \in HeaderValues, b \in Bodies : PostKnown(k, b)
    \/ \E k \in HeaderValues, b \in Bodies : PostNew(k, b)
    \/ \E r \in InFlight : PostConnected(r)
    \/ \E r \in InFlight : PostHandled(r)
    \/ \E m \in Methods, k \in HeaderValues : DeleteRequest(m, k)
    \/ \E r \in InFlight : DeleteClosed(r)
    \/ \E m \in Methods, k \in HeaderValues : OtherRequest(m, k)
    \/ \E t \in TransportIds : TransportClose(t)
    \/ \E r \in InFlight : Finish(r)

Spec == Init /\ [][Next]_vars

\* The same program with no spontaneous transport close: onclose fires only
\* from the close() call of line 123.
NextNoDrop ==
    \/ \E k \in HeaderValues : GetRequest(k)
    \/ \E r \in InFlight : GetReturn(r)
    \/ \E k \in HeaderValues, b \in Bodies : PostKnown(k, b)
    \/ \E k \in HeaderValues, b \in Bodies : PostNew(k, b)
    \/ \E r \in InFlight : PostConnected(r)
    \/ \E r \in InFlight : PostHandled(r)
    \/ \E m \in Methods, k \in HeaderValues : DeleteRequest(m, k)
    \/ \E r \in InFlight : DeleteClosed(r)
    \/ \E m \in Methods, k \in HeaderValues : OtherRequest(m, k)
    \/ \E r \in InFlight : Finish(r)

SpecNoDrop == Init /\ [][NextNoDrop]_vars

\* --------------------------------------------------------- module loading
\* The process starts with some environment; line 55 has not run.
PortInit ==
    /\ transports = <<>>
    /\ created = 0
    /\ servers = 0
    /\ sessionIdOf = [t \in TransportIds |-> NoToken]
    /\ serverOf = [t \in TransportIds |-> 0]
    /\ closed = {}
    /\ handlers = EmptyBag
    /\ bonusToolLoaded = FALSE
    /\ registered = [s \in ServerIds |-> {}]
    /\ calls = EmptyBag
    /\ portEnv \in PortInputs
    /\ PORT = NotEvaluated
    /\ calcIn = NoCall
    /\ calcOut = NoResult

\* line 55 runs when the module is loaded
EvalPort ==
    /\ PORT = NotEvaluated
    /\ PORT' = ParsePort(portEnv)
    /\ UNCHANGED <<transports, created, servers, sessionIdOf, serverOf,
                   closed, handlers, bonusToolLoaded, registered, calls,
                   portEnv, calcIn, calcOut>>

PortNext == EvalPort

\* The evaluation of the port for every value of the environment variable.
PortSpec == PortInit /\ [][PortNext]_vars

\* The operation names of the schema, line 228.
Operations == {"add", "subtract", "multiply", "divide"}

\* The integers the calculator is called with: the small ones, and those
\* at the end of the range in which every integer is a number.
Operands ==
    {FromInt(n) : n \in (-MaxOperand)..MaxOperand}
        \cup {Integer(neg, m) : neg \in BOOLEAN,
                                 m \in {Pow2(SignificandBits),
                                        NSub(Pow2(SignificandBits), <<1>>)}}

CalcInputs == [a : Operands, b : Operands, operation : Operations]

CalcInit ==
    /\ transports = <<>>
    /\ created = 0
    /\ servers = 0
    /\ sessionIdOf = [t \in TransportIds |-> NoToken]
    /\ serverOf = [t \in TransportIds |-> 0]
    /\ closed = {}
    /\ handlers = EmptyBag
    /\ bonusToolLoaded = FALSE
    /\ registered = [s \in ServerIds |-> {}]
    /\ calls = EmptyBag
    /\ portEnv = EnvUnset
    /\ PORT = ParsePort(portEnv)
    /\ calcIn \in CalcInputs
    /\ calcOut = NoResult

\* One call of the bonus_calculator handler, lines 239-249.
Calculate ==
    /\ calcOut = NoResult
    /\ calcOut' = BonusCalculator(calcIn)
    /\ UNCHANGED <<transports, created, servers, sessionIdOf, serverOf,
                   closed, handlers, bonusToolLoaded, registered, calls,
                   portEnv, PORT, calcIn>>

CalcNext == Calculate

\* The calculator handler on every pair of operands and every operation.
CalcSpec == CalcInit /\ [][CalcNext]_vars

\* ------------------------------------------------------------------ tools
\* One invocation of a tool handler on a server instance:
\*   tool     the tool's name
\*   server   the instance it was invoked on
\*   pc       the await it is suspended at, or "done" once it has a result
\*   steps    long_task: numSteps (0 for the other tools)
\*   i        long_task: the loop variable (0 for the other tools)
\*   sent     long_task: the i of the progress notifications sent so far
\*   result   the kind of result ("none" until there is one)
\*   isError  the isError flag of the result
Call(tl, s, p, n, j, q, res, e) ==
    [tool |-> tl, server |-> s, pc |-> p, steps |-> n, i |-> j, sent |-> q,
     result |-> res, isError |-> e]

Calling == BagToSet(calls)

CallStarted(c) == calls (+) SetToBag({c})

CallStepped(c, c2) == (calls (-) SetToBag({c})) (+) SetToBag({c2})

CallReturned(c) == calls (-) SetToBag({c})

\* A tool call can be taken while fewer than MaxCalls are being handled.
CanCall == BagCardinality(calls) < MaxCalls

\* tools/call for name on instance s reaches a handler
Callable(s, name) == name \in registered[s]

\* createServer(), server.ts lines 71-92, as called by either entrypoint:
\* a new instance with the tools of registerTools.
CreateServerCall ==
    /\ servers < MaxTransports
    /\ servers' = servers + 1
    /\ registered' = [registered EXCEPT ![CreateServer] = RegisterTools]
    /\ UNCHANGED <<transports, created, sessionIdOf, serverOf, closed,
                   handlers, bonusToolLoaded, calls>>
    /\ UNCHANGED pureVars

\* Mutation: the test of line 213 lost, every call registers.
AlreadyLoadedNever == FALSE

\* tools.ts line 213: if (bonusToolLoaded)
AlreadyLoaded == bonusToolLoaded

\* Mutation: the assignment of line 252 missing.
FlagAfterLoadKept == bonusToolLoaded

\* tools.ts line 252: bonusToolLoaded = true
FlagAfterLoad == TRUE

\* load_bonus_tool, tools.ts lines 212-255, up to the await of line 255.
\* server.tool of line 222 throws when the name is registered already.
LoadBonusStart(s) ==
    /\ CanCall
    /\ s \in 1..servers
    /\ Callable(s, "load_bonus_tool")
    /\ IF AlreadyLoaded
       THEN /\ calls' = CallStarted(Call("load_bonus_tool", s, "done", 0, 0,
                                         <<>>, "already", FALSE))
            /\ UNCHANGED <<bonusToolLoaded, registered>>
       ELSE IF Callable(s, "bonus_calculator")
       THEN /\ calls' = CallStarted(Call("load_bonus_tool", s, "done", 0, 0,
                                         <<>>, "error", TRUE))
            /\ UNCHANGED <<bonusToolLoaded, registered>>
       ELSE /\ registered' = [registered EXCEPT
                                ![s] = @ \cup {"bonus_calculator"}]
            /\ bonusToolLoaded' = FlagAfterLoad
            /\ calls' = CallStarted(Call("load_bonus_tool", s, "notify", 0, 0,
                                         <<>>, "none", FALSE))
    /\ UNCHANGED <<transports, created, servers, sessionIdOf, serverOf,
                   closed, handlers>>
    /\ UNCHANGED pureVars

\* load_bonus_tool, lines 255-267: sendNotification resolved and the handler
\* returns the confirmation, or it rejected and the handler throws.
LoadBonusNotified(c, ok) ==
    /\ c.tool = "load_bonus_tool"
    /\ c.pc = "notify"
    /\ calls' = CallStepped(c, [c EXCEPT
                    !.pc = "done",
                    !.result = IF ok THEN "confirmation" ELSE "error",
                    !.isError = ~ok])
    /\ UNCHANGED <<transports, created, servers, sessionIdOf, serverOf,
                   closed, handlers, bonusToolLoaded, registered>>
    /\ UNCHANGED pureVars

\* tools/call bonus_calculator on instance s: the handler of lines 239-249
\* when the name is registered, the SDK's 'tool not found' otherwise.
BonusCall(s) ==
    /\ CanCall
    /\ s \in 1..servers
    /\ calls' = CallStarted(Call("bonus_calculator", s, "done", 0, 0, <<>>,
                    IF Callable(s, "bonus_calculator")
                    THEN "value" ELSE "not_found",
                    FALSE))
    /\ UNCHANGED <<transports, created, servers, sessionIdOf, serverOf,
                   closed, handlers, bonusToolLoaded, registered>>
    /\ UNCHANGED pureVars

\* The result of a tool call has been sent.
ToolFinish(c) ==
    /\ c.pc = "done"
    /\ calls' = CallReturned(c)
    /\ UNCHANGED <<transports, created, servers, sessionIdOf, serverOf,
                   closed, handlers, bonusToolLoaded, registered>>
    /\ UNCHANGED pureVars

ToolNext ==
    \/ CreateServerCall
    \/ \E s \in ServerIds : LoadBonusStart(s)
    \/ \E c \in Calling, ok \in BOOLEAN : LoadBonusNotified(c, ok)
    \/ \E s \in ServerIds : BonusCall(s)
    \/ \E c \in Calling : ToolFinish(c)

\* The tools on the instances createServer() builds, with the HTTP state
\* left as it is at startup.
ToolSpec == Init /\ [][ToolNext]_vars

\* ------------------------------------------------------------- long_task
\* tools.ts line 161: steps: z.number().optional().default(5)
DefaultSteps == 5

\* steps is any number (z.number(), line 161): a step count is kept as a
\* fraction num/den with den > 0, in lowest terms.
Whole(n) == [num |-> n, den |-> 1]

\* The number k/2
Halves(k) == IF k % 2 = 0 THEN Whole(k \div 2) ELSE [num |-> k, den |-> 2]

\* line 171: const numSteps = steps ?? 5, for a call that passes steps or not
NumSteps(given, steps) == IF given THEN steps ELSE Whole(DefaultSteps)

\* Mutation: the loop test written i <= numSteps.
LoopContinuesInclusive(j, n) == j * n.den <= n.num

\* line 173: the loop test i < numSteps
LoopContinues(j, n) == j * n.den < n.num

\* line 178: progress: i / numSteps, kept as numerator and denominator
Progress(j, n) == <<j, n>>

\* The invocation c at the top of the loop with loop variable j: it sends
\* the notification of lines 174-181 and awaits it, or leaves the loop and
\* returns the completion response of lines 185-192.
LoopTop(c, j) ==
    IF LoopContinues(j, c.steps)
    THEN [c EXCEPT !.pc = "notify", !.i = j,
                   !.sent = Append(@, Progress(j, c.steps))]
    ELSE [c EXCEPT !.pc = "done", !.i = j, !.result = "completed"]

\* long_task, lines 170-174: invoked, up to the first await or the return.
LongTaskStart(s, given, steps) ==
    /\ CanCall
    /\ s \in 1..servers
    /\ Callable(s, "long_task")
    /\ calls' = CallStarted(LoopTop(Call("long_task", s, "start",
                                         NumSteps(given, steps), 0, <<>>,
                                         "none", FALSE), 0))
    /\ UNCHANGED <<transports, created, servers, sessionIdOf, serverOf,
                   closed, handlers, bonusToolLoaded, registered>>
    /\ UNCHANGED pureVars

\* long_task, lines 174-182: sendNotification resolved and the timer of
\* line 182 is awaited, or it rejected and the handler throws.
LongTaskNotified(c, ok) ==
    /\ c.tool = "long_task"
    /\ c.pc = "notify"
    /\ calls' = CallStepped(c,
                    IF ok
                    THEN [c EXCEPT !.pc = "sleep"]
                    ELSE [c EXCEPT !.pc = "done", !.result = "error",
                                   !.isError = TRUE])
    /\ UNCHANGED <<transports, created, servers, sessionIdOf, serverOf,
                   closed, handlers, bonusToolLoaded, registered>>
    /\ UNCHANGED pureVars

\* long_task, lines 182, 173: the timer fired, i++ and the loop test.
LongTaskSlept(c) ==
    /\ c.tool = "long_task"
    /\ c.pc = "sleep"
    /\ calls' = CallStepped(c, LoopTop(c, c.i + 1))
    /\ UNCHANGED <<transports, created, servers, sessionIdOf, serverOf,
                   closed, handlers, bonusToolLoaded, registered>>
    /\ UNCHANGED pureVars

TaskNext ==
    \/ CreateServerCall
    \/ \E s \in ServerIds, given \in BOOLEAN, steps \in 0..MaxSteps :
          LongTaskStart(s, given, Whole(steps))
    \/ \E c \in Calling, ok \in BOOLEAN : LongTaskNotified(c, ok)
    \/ \E c \in Calling : LongTaskSlept(c)
    \/ \E c \in Calling : ToolFinish(c)

\* long_task invocations on the instances createServer() builds.
TaskSpec == Init /\ [][TaskNext]_vars

\* The instance main() created, line 19.
StdioServer == 1

\* The stdio entrypoint, stdio.ts lines 18-25: main() has called
\* createServer() once and connected the instance; no HTTP session exists.
StdioInit ==
    /\ transports = <<>>
    /\ created = 0
    /\ servers = StdioServer
    /\ sessionIdOf = [t \in TransportIds |-> NoToken]
    /\ serverOf = [t \in TransportIds |-> 0]
    /\ closed = {}
    /\ handlers = EmptyBag
    /\ bonusToolLoaded = FALSE
    /\ registered = [s \in ServerIds |->
                        IF s = StdioServer THEN RegisterTools ELSE {}]
    /\ calls = EmptyBag
    /\ portEnv = EnvUnset
    /\ PORT = ParsePort(portEnv)
    /\ calcIn = NoCall
    /\ calcOut = NoResult

\* The step counts long_task is called with: -1, -1/2, 0, 1/2, 1, ... up to
\* MaxSteps.
StepInputs == {Halves(k) : k \in (-2)..(2 * MaxSteps)}

\* The invocation on instance s with step count n that is suspended at pc
\* in round j of the loop, having sent the notifications of rounds 0..j.
Suspended(s, n, j, pc) ==
    Call("long_task", s, pc, n, j, [k \in 1..(j + 1) |-> Progress(k - 1, n)],
         "none", FALSE)

\* The step counts of the invocations: those passed and the default.
StepCounts == StepInputs \cup {Whole(DefaultSteps)}

\* Every suspended long_task invocation there can be.
TaskRecords ==
    {c \in {Suspended(StdioServer, n, j, pc) :
                n \in StepCounts, j \in 0..(MaxSteps + DefaultSteps),
                pc \in {"notify", "sleep"}} :
        LoopContinues(c.i, c.steps)}

\* long_task where every notification is sent and every timer fires.
TaskFairNext ==
    \/ \E s \in ServerIds, given \in BOOLEAN, steps \in StepInputs :
          LongTaskStart(s, given, steps)
    \/ \E c \in Calling : LongTaskNotified(c, TRUE)
    \/ \E c \in Calling : LongTaskSlept(c)
    \/ \E c \in Calling : ToolFinish(c)

\* Each sendNotification of an invocation eventually resolves and each of
\* its timers eventually fires.
TaskFairness ==
    \A c \in TaskRecords :
        WF_vars(LongTaskNotified(c, TRUE) \/ LongTaskSlept(c))

TaskFairSpec == StdioInit /\ [][TaskFairNext]_vars /\ TaskFairness

\* ------------------------------------- ask_llm, confirm_action, get_feedback
\* The tools whose handler awaits a request to the client:
\* server.server.createMessage (line 124) or elicitInput (lines 320, 401).
DownstreamTools == {"ask_llm", "confirm_action", "get_feedback"}

\* The isError flag of the object the catch block returns: set at line 145
\* (ask_llm) and line 369 (confirm_action), absent from the object of
\* lines 432-439 (get_feedback).
CatchIsError(tl) ==
    IF tl = "ask_llm" THEN TRUE
    ELSE IF tl = "confirm_action" THEN TRUE
    ELSE FALSE

\* Lines 122-127, 315-339, 393-406: invoked, up to the await of the
\* downstream request.
DownstreamStart(tl, s) ==
    /\ CanCall
    /\ s \in 1..servers
    /\ Callable(s, tl)
    /\ calls' = CallStarted(Call(tl, s, "await", 0, 0, <<>>, "none", FALSE))
    /\ UNCHANGED <<transports, created, servers, sessionIdOf, serverOf,
                   closed, handlers, bonusToolLoaded, registered>>
    /\ UNCHANGED pureVars

\* The downstream request resolved and the handler returns a result built
\* from the answer, or it rejected and the catch block returns its object.
DownstreamSettled(c, ok) ==
    /\ c.tool \in DownstreamTools
    /\ c.pc = "await"
    /\ calls' = CallStepped(c,
                    IF ok
                    THEN [c EXCEPT !.pc = "done", !.result = "answer"]
                    ELSE [c EXCEPT !.pc = "done", !.result = "failed",
                                   !.isError = CatchIsError(c.tool)])
    /\ UNCHANGED <<transports, created, servers, sessionIdOf, serverOf,
                   closed, handlers, bonusToolLoaded, registered>>
    /\ UNCHANGED pureVars

DownstreamNext ==
    \/ CreateServerCall
    \/ \E tl \in DownstreamTools, s \in ServerIds : DownstreamStart(tl, s)
    \/ \E c \in Calling, ok \in BOOLEAN : DownstreamSettled(c, ok)
    \/ \E c \in Calling : ToolFinish(c)

\* The tools that await the client, on the instances createServer() builds.
DownstreamSpec == Init /\ [][DownstreamNext]_vars

\* In this step a tool handler was invoked and ran to c2.
CallStartedNow(c2) == calls' = CallStarted(c2)

\* In this step tool invocation c resumed and ran to c2.
CallSteppedNow(c, c2) == c # c2 /\ calls' = CallStepped(c, c2)

CallingAfterStep == BagToSet(calls')

\* ------------------------------------------------------------------ steps
\* In this step invocation r2 started (the synchronous section from the
\* arrival of its request to its first await or return).
StartedNow(r2) == handlers' = Started(r2)

\* In this step invocation r resumed and ran to r2.
SteppedNow(r, r2) == r # r2 /\ handlers' = Stepped(r, r2)

\* In this step invocation r resumed and returned.
ReturnedNow(r) == handlers' = Returned(r)

AfterStep == BagToSet(handlers')

\* ----------------------------------------------------------------- claims

\* C1: every token that is a key of the session table maps to a transport
\* that has not signalled closure (close() not called, onclose not fired).
C1_TableHoldsOnlyOpenTransports ==
    \A k \in DOMAIN transports : transports[k] \notin closed

\* C2: the insert of a new session's token is complete by the time a client
\* can observe the token: in every state, a token that a response has carried
\* and whose session is still open is found by the lookup of lines 75, 89
\* and 121, so no request carrying it can find it absent.
C2_ObservableTokenIsInTable ==
    \A k \in Issued : OwnerOf(k) \notin closed => HasSession(k)

\* C3: once a DELETE for a token has been answered 200, the token is unknown
\* to every lookup from then on, whatever other requests for it were in
\* flight at the time of the DELETE.
C3_DeletedTokenStaysUnknown ==
    \A r \in InFlight :
        (r.pc = "done" /\ r.method = "DELETE" /\ r.status = 200)
            => ~HasSession(r.sid)

\* A token whose entry has been removed.  onclose fires only from the
\* close() of a DELETE that found the token in the table (SpecNoDrop), and
\* it removes the entry in the same step, so these are the tokens whose
\* transport has closed and that are not a key.
IsRemoved(k) == k \in Issued /\ OwnerOf(k) \in closed /\ ~HasSession(k)

\* C4: a token that has been removed from the session table never again
\* becomes a key of the table.
C4_RemovedTokenNeverAgainAKey ==
    [][\A k \in Tokens : IsRemoved(k) => ~HasSession(k)']_vars

\* C5: a POST whose header is absent or unknown to the table and whose
\* payload is not a handshake is answered with an error (400), and none of
\* its handler's steps inserts into or removes from the session table.
C5_UnknownNonHandshakePostIsRejected ==
    [][ /\ \A r2 \in AfterStep :
             ( /\ r2.method = "POST"
               /\ r2.body = "other"
               /\ ~HasSession(r2.sid)
               /\ StartedNow(r2) )
             => (r2.pc = "connect" /\ transports' = transports)
        /\ \A r \in InFlight :
             ( /\ r.method = "POST"
               /\ r.body = "other"
               /\ r.pc \in {"connect", "handleNew"} )
             => /\ \A r2 \in AfterStep :
                     SteppedNow(r, r2)
                     => /\ transports' = transports
                        /\ r2.status = 400
                        /\ sessionIdOf'[r.local] = NoToken
                /\ ReturnedNow(r)
                     => (transports' = transports /\ r.status = 400)
      ]_vars

\* C5 witness: a POST with an unknown header and a non-handshake payload has
\* returned with status 400 while the table holds a session.
C5_Witness ==
    /\ transports # <<>>
    /\ \E t \in 1..created :
         /\ sessionIdOf[t] = NoToken
         /\ ~\E r \in InFlight : r.local = t

\* C6: once the POST that created a session has returned and the session has
\* not been closed, its token is a key of the table, bound to its transport.
C6_FinishedHandshakeTokenIsInTable ==
    \A t \in 1..created :
        ( /\ sessionIdOf[t] # NoToken
          /\ t \notin closed
          /\ ~\E r \in InFlight :
                r.pc \in {"connect", "handleNew"} /\ r.local = t )
        => (HasSession(sessionIdOf[t]) /\ transports[sessionIdOf[t]] = t)

\* C6 witness: the POST that created a session has returned, the session is
\* open and its token is in the table.
C6_Witness ==
    \E t \in 1..created :
        /\ sessionIdOf[t] # NoToken
        /\ t \notin closed
        /\ ~\E r \in InFlight : r.local = t
        /\ HasSession(sessionIdOf[t])

\* C7: a token maps to one binding for its whole lifetime: a table entry is
\* the transport that generated the key, an entry is never replaced, a
\* transport keeps its sessionId and its server, and a GET or POST that found
\* its token in the table works on that token's transport.
C7_BindingState ==
    /\ \A k \in DOMAIN transports : sessionIdOf[transports[k]] = k
    /\ \A r \in InFlight :
         r.pc \in {"stream", "handleKnown"}
            => sessionIdOf[r.local] = r.sid

C7_BindingStep ==
    /\ \A k \in (DOMAIN transports) \cap (DOMAIN transports') :
         transports'[k] = transports[k]
    /\ \A t \in 1..created :
         /\ serverOf'[t] = serverOf[t]
         /\ sessionIdOf[t] # NoToken => sessionIdOf'[t] = sessionIdOf[t]

C7_OneBindingPerToken == []C7_BindingState /\ [][C7_BindingStep]_vars

\* C7 witness: a POST carrying a known token is being handled by the
\* transport stored under that token while a GET streams from it.
C7_Witness ==
    \E r, g \in InFlight :
        /\ r.pc = "handleKnown" /\ g.pc = "stream"
        /\ r.sid = g.sid /\ r.local = g.local
        /\ HasSession(r.sid) /\ transports[r.sid] = r.local

\* C8: two sessions never share a token, a transport or a server instance,
\* also when their handshakes are handled concurrently.
C8_SessionsShareNothing ==
    /\ \A t, u \in 1..created :
         t # u =>
           /\ serverOf[t] # serverOf[u]
           /\ sessionIdOf[t] # NoToken => sessionIdOf[t] # sessionIdOf[u]
    /\ \A k, j \in DOMAIN transports :
         k # j =>
           /\ transports[k] # transports[j]
           /\ serverOf[transports[k]] # serverOf[transports[j]]

\* C8 witness: two handshakes are in flight together and both have been
\* answered with a token.
C8_Witness ==
    \E r, g \in InFlight :
        /\ r.local # g.local
        /\ r.pc = "handleNew" /\ g.pc = "handleNew"
        /\ r.status = 200 /\ g.status = 200

\* C9: DELETE and onclose are idempotent with respect to each other: onclose
\* fires inside close() and removes the entry, the delete of line 124 that
\* follows is a no-op, and no step removes more than one entry.
C9_SecondRemovalIsNoOp ==
    [][ /\ \A r \in InFlight : \A r2 \in AfterStep :
             (r.pc = "close" /\ SteppedNow(r, r2)) => transports' = transports
        /\ Cardinality((DOMAIN transports) \ (DOMAIN transports')) <= 1
      ]_vars

\* C10: DELETE with a known token closes the bound transport, removes the
\* entry and answers 200; DELETE with a missing or unknown token answers 404
\* and leaves the table and the /health session count unchanged.
C10_DeleteOutcome ==
    [][\A r2 \in AfterStep :
         /\ (r2.method = "DELETE" /\ StartedNow(r2)) =>
              IF HasSession(r2.sid)
              THEN /\ r2.pc = "close"
                   /\ r2.local = transports[r2.sid]
                   /\ r2.local \in closed'
                   /\ r2.sid \notin DOMAIN transports'
              ELSE /\ r2.pc = "done"
                   /\ r2.status = 404
                   /\ transports' = transports
                   /\ HealthSessions' = HealthSessions
         /\ \A r \in InFlight :
              (r.pc = "close" /\ SteppedNow(r, r2)) =>
                 /\ r2.pc = "done"
                 /\ r2.status = 200
                 /\ r.local \in closed'
                 /\ r.sid \notin DOMAIN transports'
      ]_vars

\* C10 witness: one DELETE has been answered 200 and another 404.
C10_Witness ==
    \E r, g \in InFlight :
        /\ r.pc = "done" /\ r.method = "DELETE" /\ r.status = 200
        /\ r.local \in closed /\ ~HasSession(r.sid)
        /\ g.pc = "done" /\ g.method = "DELETE" /\ g.status = 404

\* C11: a GET with a missing or unknown token is answered 400 and changes
\* no state; a GET with a known token is handed to the transport stored under
\* that token; no step of a GET handler creates a server, a transport or a
\* table entry.
C11_GetOutcome ==
    [][ /\ \A r2 \in AfterStep :
             (r2.method = "GET" /\ StartedNow(r2)) =>
                /\ UNCHANGED <<transports, created, servers, sessionIdOf,
                               serverOf, closed>>
                /\ IF HasSession(r2.sid)
                   THEN r2.pc = "stream" /\ r2.local = transports[r2.sid]
                   ELSE r2.pc = "done" /\ r2.status = 400
        /\ \A r \in InFlight :
             (r.method = "GET" /\ ReturnedNow(r)) =>
                UNCHANGED <<transports, created, servers, sessionIdOf,
                            serverOf, closed>>
      ]_vars

\* C11 witness: with two sessions in the table, a GET with the second token
\* is streaming from that token's transport and a GET with an unknown header
\* has been answered 400.
C11_Witness ==
    /\ Cardinality(DOMAIN transports) = 2
    /\ \E r, g \in InFlight :
         /\ r.method = "GET" /\ r.pc = "stream" /\ r.local = transports[r.sid]
         /\ \E j \in DOMAIN transports : j < r.sid
         /\ g.method = "GET" /\ g.pc = "done" /\ g.status = 400
         /\ ~HasSession(g.sid)

\* C12: a request whose verb is not GET, POST or DELETE is answered 405 in
\* the step that takes it, and that step leaves the session table and the
\* transports as they were, whether or not the request carries a known token.
C12_OtherVerbIsRejected ==
    [][\A r2 \in AfterStep :
          (r2.method \notin {"GET", "POST", "DELETE"} /\ StartedNow(r2)) =>
             /\ r2.pc = "done"
             /\ r2.status = 405
             /\ transports' = transports
             /\ closed' = closed
      ]_vars

\* C12 witness: two such requests have been answered 405, one carrying a
\* token that is a key of the table and one carrying none, and the session
\* is still in the table, open.
C12_Witness ==
    \E r, g \in InFlight :
        /\ r.method = "PUT" /\ r.status = 405 /\ HasSession(r.sid)
        /\ transports[r.sid] \notin closed
        /\ g.method = "PUT" /\ g.status = 405 /\ g.sid = NoToken

\* Sessions created by a successful handshake (the transport answered the
\* handshake and generated its token) and not yet closed.
OpenSessions ==
    {t \in 1..created : sessionIdOf[t] # NoToken /\ t \notin closed}

\* C13: at every moment the number /health reports as `sessions` equals the
\* number of sessions created by a successful handshake and not yet closed.
C13_HealthCountsOpenSessions ==
    HealthSessions = Cardinality(OpenSessions)

\* The tokens whose table entry a step inserts, removes or rebinds.
ChangedKeys ==
    {k \in Tokens :
        \/ (k \in DOMAIN transports) # (k \in DOMAIN transports')
        \/ /\ k \in DOMAIN transports
           /\ k \in DOMAIN transports'
           /\ transports'[k] # transports[k]}

\* C14: a step changes the table entry of no token other than the one the
\* exchange or the closing transport belongs to, and every change of the
\* table is either the insert that ends a session-creating POST or the
\* removal of the entry of a transport that has closed (by its onclose, or by
\* line 124 of the DELETE addressed to that token); no entry is rebound.
C14_OnlyOwnEntryOnlyInsertAndRemove ==
    [][\A k \in ChangedKeys :
          /\ ChangedKeys = {k}
          /\ \/ /\ k \notin DOMAIN transports
                /\ \E r \in InFlight :
                      /\ r.pc = "handleNew"
                      /\ sessionIdOf[r.local] = k
                      /\ transports'[k] = r.local
                      /\ ReturnedNow(r)
             \/ /\ k \in DOMAIN transports
                /\ k \notin DOMAIN transports'
                /\ sessionIdOf[transports[k]] = k
                /\ transports[k] \in closed'
                /\ \/ closed' = closed \cup {transports[k]} /\ closed' # closed
                   \/ \E r \in InFlight :
                         r.pc = "close" /\ r.sid = k /\ handlers' # handlers
      ]_vars

\* C15: the flag is false at startup, changes only from false to true, does
\* so only in the step of a load_bonus_tool invocation that registers the
\* bonus tool (the first successful one, as the flag was false), every such
\* step sets it, and no step resets it.
C15_FlagStep ==
    /\ bonusToolLoaded => bonusToolLoaded'
    /\ (~bonusToolLoaded /\ bonusToolLoaded') =>
          \E c2 \in CallingAfterStep :
             /\ c2.tool = "load_bonus_tool"
             /\ c2.pc = "notify"
             /\ CallStartedNow(c2)
             /\ ~Callable(c2.server, "bonus_calculator")
             /\ Callable(c2.server, "bonus_calculator")'
    /\ \A s \in 1..servers :
          (~Callable(s, "bonus_calculator") /\ Callable(s, "bonus_calculator")')
             => bonusToolLoaded'

C15_FlagSetOnceNeverReset == ~bonusToolLoaded /\ [][C15_FlagStep]_vars

\* C15 witness: the flag is true, the invocation that set it has returned
\* its confirmation and a later one has found the flag set.
C15_Witness ==
    /\ bonusToolLoaded
    /\ \E c, d \in Calling :
         /\ c.tool = "load_bonus_tool" /\ c.result = "confirmation"
         /\ d.tool = "load_bonus_tool" /\ d.result = "already"

\* C16: load_bonus_tool invoked on an instance leaves exactly one
\* bonus_calculator registered on that instance: the invocation that finds
\* none (the first on the instance) registers it and goes on to return the
\* confirmation, one that finds it (the second) reports 'already loaded' and
\* registers nothing.
C16_LoadTwiceRegistersOnce ==
    [][\A c2 \in CallingAfterStep :
          (c2.tool = "load_bonus_tool" /\ CallStartedNow(c2)) =>
             /\ Callable(c2.server, "bonus_calculator")'
             /\ IF Callable(c2.server, "bonus_calculator")
                THEN c2.result = "already" /\ registered' = registered
                ELSE c2.pc = "notify"
      ]_vars

\* C17: createServer() reads the flag when it builds an instance: the
\* instance a step creates has bonus_calculator registered exactly when the
\* flag was true at that step.
C17_FactoryReadsFlag ==
    [][servers' = servers + 1 =>
          ("bonus_calculator" \in registered'[servers'] <=> bonusToolLoaded)
      ]_vars

\* In this step bonus_calculator became callable on instance s.
BecameCallable(s) ==
    /\ ~Callable(s, "bonus_calculator")
    /\ Callable(s, "bonus_calculator")'

\* Once callable on s, bonus_calculator stays callable on s.
StaysCallable(s) ==
    Callable(s, "bonus_calculator") => Callable(s, "bonus_calculator")'

\* C18 as stated: bonus_calculator is not callable on an instance in any
\* state before load_bonus_tool has returned its confirmation on that
\* instance (so the step that makes it callable is no earlier than the step
\* that returns the confirmation), and it is callable in every state after.
C18_CallableOnlyAfterConfirmation ==
    [][\A s \in ServerIds :
          /\ BecameCallable(s) =>
                \E c \in Calling : \E c2 \in CallingAfterStep :
                   /\ c.tool = "load_bonus_tool"
                   /\ c.server = s
                   /\ c2.result = "confirmation"
                   /\ CallSteppedNow(c, c2)
          /\ StaysCallable(s)
      ]_vars

\* C18 amended: bonus_calculator is not callable on an instance in any state
\* before a load_bonus_tool invocation on that instance has registered it
\* (the synchronous section that ends at the await of the list-changed
\* notification), it is callable in every state after that, and so it is
\* callable when that invocation returns its confirmation.
C18_CallableFromRegistration ==
    [][\A s \in ServerIds :
          /\ BecameCallable(s) =>
                \E c2 \in CallingAfterStep :
                   /\ c2.tool = "load_bonus_tool"
                   /\ c2.server = s
                   /\ c2.pc = "notify"
                   /\ CallStartedNow(c2)
          /\ StaysCallable(s)
          /\ \A c \in Calling : \A c2 \in CallingAfterStep :
                ( /\ c.tool = "load_bonus_tool"
                  /\ c.server = s
                  /\ c2.result = "confirmation"
                  /\ CallSteppedNow(c, c2) )
                => (Callable(s, "bonus_calculator")
                    /\ Callable(s, "bonus_calculator")')
      ]_vars

\* C18 witness: load_bonus_tool has returned its confirmation on an instance
\* and a bonus_calculator call on the same instance was answered with a
\* value, while another instance has no bonus_calculator.
C18_Witness ==
    /\ \E c, d \in Calling :
         /\ c.tool = "load_bonus_tool" /\ c.result = "confirmation"
         /\ d.tool = "bonus_calculator" /\ d.result = "value"
         /\ d.server = c.server
         /\ Callable(c.server, "bonus_calculator")
    /\ \E s \in 1..servers : ~Callable(s, "bonus_calculator")

\* The progress values 0/n, 1/n, ..., (k-1)/n in this order.
FirstProgress(k, n) == [j \in 1..k |-> <<j - 1, n>>]

\* C19: the progress notifications a long_task invocation with n steps has
\* emitted are at every moment 0/n, 1/n, ... in this order with no gap and no
\* duplicate, never more than n; when it returns its completion response it
\* has emitted exactly n; and nothing is emitted after the response.
C19_State ==
    \A c \in Calling :
        c.tool = "long_task" =>
           /\ Len(c.sent) <= c.steps.num
           /\ c.sent = FirstProgress(Len(c.sent), c.steps)
           /\ c.result = "completed" => Len(c.sent) = c.steps.num

C19_Step ==
    \A c \in Calling : \A c2 \in CallingAfterStep :
        (c.tool = "long_task" /\ c.pc = "done") =>
           ~CallSteppedNow(c, c2)

C20_DownstreamFailureIsFlagged ==
    \A c \in Calling :
        (c.tool \in DownstreamTools /\ c.result = "failed") => c.isError

\* line 55: the number 3000 that the default text denotes
DefaultPort == 3000

\* C21: the listen port is the integer the PORT environment variable holds,
\* and is 3000 whenever the variable is unset or its value cannot be parsed
\* as an integer (parseInt finds no integer in it).
C21_PortDefaultsTo3000 ==
    PORT # NotEvaluated =>
       IF ~portEnv.set \/ ParseInt(portEnv.text) = NaN
       THEN PORT = Num(DefaultPort)
       ELSE PORT = ParseInt(portEnv.text)

\* The token of the session a suspended invocation works for.
SessionOf(r) ==
    IF r.local = NoTransport THEN r.sid ELSE sessionIdOf[r.local]

\* The step that resumes the suspended invocation r.
Resume(r) ==
    \/ GetReturn(r)
    \/ PostConnected(r)
    \/ PostHandled(r)
    \/ DeleteClosed(r)

\* C22: while the handling of one session's exchange is suspended, an
\* exchange arriving for a different token is still dispatched (GET, POST and
\* DELETE for any other token in the table can be taken) and can complete
\* (every other suspended invocation can resume): nothing waits for the
\* suspended one.
C22_SessionsDoNotBlock ==
    \A r \in InFlight :
        r.pc # "done" =>
           /\ \A k \in DOMAIN transports :
                (k # SessionOf(r) /\ BagCardinality(handlers) < MaxHandlers)
                   => /\ ENABLED GetRequest(k)
                      /\ ENABLED PostKnown(k, "other")
                      /\ ENABLED DeleteRequest("DELETE", k)
           /\ \A r2 \in InFlight :
                (r2.pc # "done" /\ SessionOf(r2) # SessionOf(r))
                   => ENABLED Resume(r2)

\* C22 witness: an exchange of one session is suspended in handleRequest
\* while a DELETE for another session has been taken and answered 200.
C22_Witness ==
    \E r, g \in InFlight :
        /\ r.pc = "handleKnown" /\ HasSession(r.sid)
        /\ g.method = "DELETE" /\ g.pc = "done" /\ g.status = 200
        /\ g.sid # r.sid

\* C23: the manager does not reorder the exchanges of a session: a GET, POST
\* or DELETE carrying a known token is handed to that token's transport
\* (handleRequest or close called) in the synchronous section in which it
\* arrives, so it is handed over before any exchange that arrives later.
C23_HandedOverOnArrival ==
    [][\A r2 \in AfterStep :
          (HasSession(r2.sid) /\ r2.method \in {"GET", "POST", "DELETE"}
           /\ StartedNow(r2)) =>
             /\ r2.local = transports[r2.sid]
             /\ r2.method = "GET" => r2.pc = "stream"
             /\ r2.method = "POST" => r2.pc = "handleKnown"
             /\ r2.method = "DELETE" => (r2.pc = "close" /\ r2.local \in closed')
      ]_vars

\* C23 witness: two POSTs carrying the same known token have arrived one
\* after the other and both are in handleRequest of that token's transport.
C23_Witness ==
    \E r, g \in InFlight :
        /\ r.pc = "handleKnown" /\ g.pc = "handleKnown"
        /\ r.body = "initialize" /\ g.body = "other"
        /\ r.sid = g.sid /\ r.local = g.local
        /\ HasSession(r.sid) /\ transports[r.sid] = r.local

\* C24: closing a session cancels nothing: the step in which a transport
\* closes (close() called by a DELETE, or the connection dropping) leaves
\* every suspended invocation in flight and removes the session's table
\* entry whether or not invocations of the session are suspended; and a
\* suspended invocation whose transport has closed can still resume and
\* run to its end.
C24_CloseStep ==
    \A t \in closed' \ closed :
        /\ \A r \in InFlight : CopiesIn(r, handlers') >= CopiesIn(r, handlers)
        /\ sessionIdOf[t] \notin DOMAIN transports'

C24_State ==
    \A r \in InFlight :
        (r.pc \in {"stream", "handleKnown", "handleNew"} /\ r.local \in closed)
           => ENABLED Resume(r)

PassedCheck == {c \in Calling : c.tool = "load_bonus_tool" /\ c.pc = "notify"}

C25_Step ==
    (\E s \in 1..servers : ~Callable(s, "bonus_calculator")
                            /\ "bonus_calculator" \in registered'[s])
       => (~bonusToolLoaded /\ bonusToolLoaded')

C25_State ==
    /\ Cardinality(PassedCheck) <= 1
    /\ \A c \in PassedCheck : CopiesIn(c, calls) = 1 /\ bonusToolLoaded
    /\ Cardinality({s \in 1..servers : Callable(s, "bonus_calculator")}) <= 1

C25_CheckRegisterSetIsAtomic == []C25_State /\ [][C25_Step]_vars

\* C25 witness: two invocations of load_bonus_tool are in flight at once,
\* on different instances; the first is past the test and suspended in its
\* notification, the second found the flag set.
C25_Witness ==
    \E c, d \in Calling :
        /\ c.tool = "load_bonus_tool" /\ c.pc = "notify"
        /\ d.tool = "load_bonus_tool" /\ d.result = "already"
        /\ d.server # c.server

\* The number v is the integer z.
IsInteger(v, z) ==
    /\ v.kind = "number"
    /\ v.neg = z.neg
    /\ v.exp >= 0
    /\ NShl(v.mant, v.exp) = z.mag

\* The number v differs from (-1)^neg * num / den by at most half a unit in
\* the last place of v: with u the exponent of that unit,
\* 2 * |v * den - num| <= den * 2^u, both sides scaled to integers.
WithinHalfUlp(v, neg, num, den) ==
    /\ v.kind = "number"
    /\ IF num = <<>> THEN v.mant = <<>>
       ELSE /\ v.mant # <<>>
            /\ v.neg = neg
            /\ LET u    == NBitLen(v.mant) + v.exp - SignificandBits
                   up   == IF u > 0 THEN u ELSE 0
                   down == IF u < 0 THEN -u ELSE 0
                   l    == NMul(NShl(v.mant, v.exp - u + up), den)
                   r    == NShl(num, down)
                   diff == IF NLess(l, r) THEN NSub(r, l) ELSE NSub(l, r)
               IN  NLeq(NShl(diff, 1), NShl(den, up))

\* The exact result of add, subtract and multiply.
ExactResult(in) ==
    CASE in.operation = "add"      -> ExactAdd(in.a, in.b)
      [] in.operation = "subtract" -> ExactSubtract(in.a, in.b)
      [] in.operation = "multiply" -> ExactMultiply(in.a, in.b)

\* divide returns the quotient when b is not 0, and NaN when b is 0.
DivideResult(in, v) ==
    IF in.b.mag = <<>> THEN v = NotANumber
    ELSE WithinHalfUlp(v, in.a.neg # in.b.neg, in.a.mag, in.b.mag)

C27_AlreadyLoadedMeansCallable ==
    \A c \in Calling :
        (c.tool = "load_bonus_tool" /\ c.result = "already")
           => Callable(c.server, "bonus_calculator")

\* The instances on which bonus_calculator is registered.
WithBonus == {s \in 1..servers : Callable(s, "bonus_calculator")}

\* C28: over all instances created, none has bonus_calculator registered
\* while the flag is false and exactly one has while it is true: the step
\* that sets the flag registers the tool on the instance whose
\* load_bonus_tool call takes that step, and no later step changes where it
\* is registered.
C28_State == Cardinality(WithBonus) = IF bonusToolLoaded THEN 1 ELSE 0

C28_Step ==
    /\ (~bonusToolLoaded /\ bonusToolLoaded') =>
          \E c \in CallingAfterStep :
              /\ CallStartedNow(c)
              /\ c.tool = "load_bonus_tool" /\ c.pc = "notify"
              /\ "bonus_calculator" \in registered'[c.server]
    /\ bonusToolLoaded =>
          \A s \in ServerIds :
              ("bonus_calculator" \in registered'[s]) = (s \in WithBonus)

BeingCreated(t) ==
    \E r \in InFlight : r.local = t /\ r.pc \in {"connect", "handleNew"}

\* C29: once the POST that created and connected an instance and its
\* transport has been handled, the transport is the value of a table entry
\* or it is closed.
C29_NoConnectedInstanceLeftBehind ==
    \A t \in 1..created :
        ~BeingCreated(t) =>
           \/ t \in closed
           \/ \E k \in DOMAIN transports : transports[k] = t

\* The notify-then-wait rounds of a step count: that many, and none when it
\* is 0 or negative.
ThatManyRounds(k, n) == IF n.num > 0 THEN k * n.den = n.num ELSE k = 0

\* C30: provided every notification is sent and every timer fires, every
\* long_task invocation eventually returns its completion response, and it
\* returns it after exactly as many notify-then-wait rounds as its step
\* count says, none when the step count is 0 or negative.
C30_Rounds ==
    \A c \in Calling :
        (c.tool = "long_task" /\ c.result = "completed")
           => ThatManyRounds(Len(c.sent), c.steps)

C30_Completes ==
    \A n \in StepCounts :
        (\E c \in Calling : c.tool = "long_task" /\ c.steps = n)
           ~> (\E d \in Calling : /\ d.tool = "long_task" /\ d.steps = n
                                   /\ d.result = "completed")

C30_CompletesAfterThatManyRounds == []C30_Rounds /\ C30_Completes

=============================================================================
